---- MODULE Spec2Model ----
(***************************************************************************)
(* The Spritz engine of src/src/lib.rs: one 256-cell byte table S, the     *)
(* byte cursors i, j, k, z, w and the absorption counter a, with the       *)
(* operations of `impl Spritz`.  Every operation is an operator from an    *)
(* engine value to an engine value, computed statement by statement as the *)
(* Rust code computes it, in 8-bit wrapping arithmetic.                    *)
(*                                                                         *)
(* Besides the seven fields of `struct Spritz` an engine value carries     *)
(* three history fields that the code does not have and never reads:       *)
(*   updates  the number of update() calls made so far,                    *)
(*   calls    the shuffle/whip/crush/output calls made so far, each with   *)
(*            the values of a, w and `updates` at the moment of the call,  *)
(*   outs     the bytes returned by output() so far.                       *)
(* The actions clear them before every operation, so in a state they       *)
(* describe the calls made by the last operation (in an initial state: by  *)
(* the construction).                                                      *)
(***************************************************************************)
EXTENDS Integers, Sequences, FiniteSets, TLC

N == 256

\* u8 arithmetic: wrapping_add / wrapping_sub / `as u8`.
Wrap(x) == x % 256

\* `b & 0xf` and `b >> 4` on a u8.
LowNibble(b) == b % 16
HighNibble(b) == b \div 16

\* A mutant of Xor: a wrapping addition.
Xor_add(x, y) == (x + y) % 256

\* `x ^ y` on two u8 values, bit by bit.
RECURSIVE Xor(_, _)
Xor(x, y) ==
    IF x = 0 /\ y = 0 THEN 0
    ELSE (((x % 2) + (y % 2)) % 2) + 2 * Xor(x \div 2, y \div 2)

\* <[u8]>::swap(x, y).
swap(S, x, y) == [S EXCEPT ![x] = S[y], ![y] = S[x]]

\* Statement order: x is computed, then F runs on its value.
Then(x, F(_)) == CHOOSE y \in {F(h) : h \in {x}} : TRUE

\* `for n in lo ..= hi { st = Body(st, n) }`: the iterations run in order.  The
\* range is split in four quarters, each computed before the next is
\* entered, which only keeps the evaluation shallow.
Quarter(lo, hi, q) == lo + ((q * (hi - lo)) \div 4)

RECURSIVE For(_, _, _, _)
For(Body(_, _), st, lo, hi) ==
    CASE lo > hi -> st
      [] lo = hi -> Body(st, lo)
      [] OTHER ->
           CHOOSE y \in
             {For(Body, h3, Quarter(lo, hi, 3) + 1, hi) : h3 \in
               {For(Body, h2, Quarter(lo, hi, 2) + 1, Quarter(lo, hi, 3)) : h2 \in
                 {For(Body, h1, Quarter(lo, hi, 1) + 1, Quarter(lo, hi, 2)) : h1 \in
                   {For(Body, st, lo, Quarter(lo, hi, 1))}}}} : TRUE

\* The seven fields of struct Spritz, without the history fields.
Core(sp) ==
    [S |-> sp.S, i |-> sp.i, j |-> sp.j, k |-> sp.k, z |-> sp.z, a |-> sp.a, w |-> sp.w]

\* One entry of the call history.
Event(sp, f) == [f |-> f, a |-> sp.a, w |-> sp.w, u |-> sp.updates]
Logged(sp, f) == [sp EXCEPT !.calls = Append(sp.calls, Event(sp, f))]
Fresh(sp) == [sp EXCEPT !.updates = 0, !.calls = <<>>, !.outs = <<>>]

\* A mutant of initialize_state: w starts at 0 like the other cursors.
initialize_state_w0 ==
    [S |-> [x \in 0 .. 255 |-> x],
     i |-> 0, j |-> 0, k |-> 0, z |-> 0, a |-> 0, w |-> 0,
     updates |-> 0, calls |-> <<>>, outs |-> <<>>]

initialize_state ==
    [S |-> [x \in 0 .. 255 |-> x],
     i |-> 0, j |-> 0, k |-> 0, z |-> 0, a |-> 0, w |-> 1,
     updates |-> 0, calls |-> <<>>, outs |-> <<>>]

\* A mutant of update: the "swap" overwrites S[i] with S[j] and loses S[i].
update_overwrite(sp) ==
    LET i1  == Wrap(sp.i + sp.w)
        idx == Wrap(sp.j + sp.S[i1])
        j1  == Wrap(sp.k + sp.S[idx])
        k1  == Wrap(Wrap(i1 + sp.k) + sp.S[j1])
    IN  [sp EXCEPT !.i = i1, !.j = j1, !.k = k1,
                   !.S = [sp.S EXCEPT ![i1] = sp.S[j1]],
                   !.updates = sp.updates + 1]

\* A mutant of update: k is computed from the old j instead of the new one.
update_oldj(sp) ==
    LET i1  == Wrap(sp.i + sp.w)
        idx == Wrap(sp.j + sp.S[i1])
        j1  == Wrap(sp.k + sp.S[idx])
        k1  == Wrap(Wrap(i1 + sp.k) + sp.S[sp.j])
    IN  [sp EXCEPT !.i = i1, !.j = j1, !.k = k1,
                   !.S = swap(sp.S, i1, j1),
                   !.updates = sp.updates + 1]

update(sp) ==
    LET i1  == Wrap(sp.i + sp.w)
        idx == Wrap(sp.j + sp.S[i1])
        j1  == Wrap(sp.k + sp.S[idx])
        k1  == Wrap(Wrap(i1 + sp.k) + sp.S[j1])
    IN  [sp EXCEPT !.i = i1, !.j = j1, !.k = k1,
                   !.S = swap(sp.S, i1, j1),
                   !.updates = sp.updates + 1]

\* output() returns the new z.
output(sp) ==
    LET t0 == sp.S[Wrap(sp.z + sp.k)]
        t1 == sp.S[Wrap(sp.i + t0)]
        z1 == sp.S[Wrap(sp.j + t1)]
    IN  [Logged(sp, "output") EXCEPT !.z = z1, !.outs = Append(sp.outs, z1)]

\* A mutant of whip: the stride grows by 1 instead of 2.
whip_add1(sp, r) ==
    Then(For(LAMBDA s, n : update(s), Logged(sp, "whip"), 1, r),
         LAMBDA s1 : [s1 EXCEPT !.w = Wrap(s1.w + 1)])

whip(sp, r) ==
    Then(For(LAMBDA s, n : update(s), Logged(sp, "whip"), 1, r),
         LAMBDA s1 : [s1 EXCEPT !.w = Wrap(s1.w + 2)])

\* A mutant of crushStep: the comparison is reversed.
crushStep_less(S, v) ==
    LET idx == Wrap((N - 1) - v)
    IN  IF S[v] < S[idx] THEN swap(S, v, idx) ELSE S

\* A mutant of crushStep: the cell is compared with its neighbour (one pass
\* of a bubble sort) instead of its mirror image.
crushStep_adjacent(S, v) ==
    LET idx == Wrap(v + 1)
    IN  IF S[v] > S[idx] THEN swap(S, v, idx) ELSE S

\* The body of crush's loop for one v.
crushStep(S, v) ==
    LET idx == Wrap((N - 1) - v)
    IN  IF S[v] > S[idx] THEN swap(S, v, idx) ELSE S

crush(sp) ==
    [Logged(sp, "crush") EXCEPT !.S = For(crushStep, sp.S, 0, Wrap(N \div 2) - 1)]

\* A mutant of shuffle: the third whip is missing.
shuffle_twowhips(sp) ==
    LET s1 == whip(Logged(sp, "shuffle"), 2 * N)
        s2 == Then(s1, crush)
        s3 == Then(s2, LAMBDA s : whip(s, 2 * N))
        s4 == Then(s3, crush)
    IN  Then(s4, LAMBDA s : [s EXCEPT !.a = 0])

\* A mutant of shuffle: a is not reset.
shuffle_noreset(sp) ==
    LET s1 == whip(Logged(sp, "shuffle"), 2 * N)
        s2 == Then(s1, crush)
        s3 == Then(s2, LAMBDA s : whip(s, 2 * N))
        s4 == Then(s3, crush)
    IN  Then(s4, LAMBDA s : whip(s, 2 * N))

shuffle(sp) ==
    LET s1 == whip(Logged(sp, "shuffle"), 2 * N)
        s2 == Then(s1, crush)
        s3 == Then(s2, LAMBDA s : whip(s, 2 * N))
        s4 == Then(s3, crush)
        s5 == Then(s4, LAMBDA s : whip(s, 2 * N))
    IN  Then(s5, LAMBDA s : [s EXCEPT !.a = 0])

\* A mutant of absorb_nibble: the offset N/2 is missing, so the nibble is
\* swapped with a cell of the lower half.
absorb_nibble_lowhalf(sp, x) ==
    Then(IF sp.a = Wrap(N \div 2) THEN shuffle(sp) ELSE sp,
         LAMBDA s1 : [s1 EXCEPT !.S = swap(s1.S, s1.a, x),
                                !.a = Wrap(s1.a + 1)])

absorb_nibble(sp, x) ==
    Then(IF sp.a = Wrap(N \div 2) THEN shuffle(sp) ELSE sp,
         LAMBDA s1 : [s1 EXCEPT !.S = swap(s1.S, s1.a, Wrap(x + Wrap(N \div 2))),
                                !.a = Wrap(s1.a + 1)])

\* A mutant of absorb_byte: the high nibble is absorbed first.
absorb_byte_highfirst(sp, b) ==
    Then(absorb_nibble(sp, HighNibble(b)), LAMBDA s1 : absorb_nibble(s1, LowNibble(b)))

absorb_byte(sp, b) ==
    Then(absorb_nibble(sp, LowNibble(b)), LAMBDA s1 : absorb_nibble(s1, HighNibble(b)))

absorb(sp, I) == For(LAMBDA s, n : absorb_byte(s, I[n]), sp, 1, Len(I))

\* A mutant of absorb_stop: the saturation check is missing.
absorb_stop_nocheck(sp) == [sp EXCEPT !.a = Wrap(sp.a + 1)]

\* A mutant of absorb_stop: the increment is the else-branch of the
\* saturation check, so the stop marker is not counted after a shuffle.
absorb_stop_else(sp) ==
    IF sp.a = Wrap(N \div 2) THEN shuffle(sp) ELSE [sp EXCEPT !.a = Wrap(sp.a + 1)]

absorb_stop(sp) ==
    Then(IF sp.a = Wrap(N \div 2) THEN shuffle(sp) ELSE sp,
         LAMBDA s1 : [s1 EXCEPT !.a = Wrap(s1.a + 1)])

\* A mutant of drip: the pending absorbed data is not shuffled in.
drip_noshuffle(sp) == Then(update(sp), output)

\* drip() returns the z of the engine it leaves.
drip(sp) ==
    Then(Then(IF sp.a > 0 THEN shuffle(sp) ELSE sp, update), output)

\* `p.push(self.drip())` on st = [sp, p].
squeezeStep(st, n) ==
    Then(drip(st.sp), LAMBDA s1 : [sp |-> s1, p |-> Append(st.p, s1.z)])

\* A mutant of squeeze: the loop stops one byte short.
squeeze_short(sp, r) ==
    Then(IF sp.a > 0 THEN shuffle(sp) ELSE sp,
         LAMBDA s1 : For(squeezeStep, [sp |-> s1, p |-> <<>>], 1, r - 1))

\* squeeze(r) returns p; the result is [sp |-> the engine left, p |-> p].
squeeze(sp, r) ==
    Then(IF sp.a > 0 THEN shuffle(sp) ELSE sp,
         LAMBDA s1 : For(squeezeStep, [sp |-> s1, p |-> <<>>], 1, r))

\* `for (i, v) in src.iter().enumerate() { dst[i] = v ^ self.drip(); }` for the
\* first `upto` source bytes (indices from 1); the result is [sp, dst].
xorLoop(sp, dst, src, upto) ==
    For(LAMBDA st, n :
            Then(drip(st.sp),
                 LAMBDA s1 : [sp  |-> s1,
                              dst |-> [st.dst EXCEPT ![n] = Xor(src[n], s1.z)]]),
        [sp |-> sp, dst |-> dst], 1, upto)

\* A mutant of xor_key_stream: the keystream is drawn from a copy of the
\* engine, so the engine itself does not advance.
xor_key_stream_copy(sp, dst, src) ==
    IF Len(dst) # Len(src)
    THEN [sp |-> sp, dst |-> dst, panic |-> TRUE]
    ELSE Then(xorLoop(sp, dst, src, Len(src)),
              LAMBDA st : [sp |-> sp, dst |-> st.dst, panic |-> FALSE])

\* A mutant of xor_key_stream: the assert is missing.  A longer dst is
\* accepted; with a shorter dst the indexing `dst[i]` panics at the first
\* index outside dst, after drip() was evaluated for that byte.
xor_key_stream_noassert(sp, dst, src) ==
    IF Len(dst) >= Len(src)
    THEN Then(xorLoop(sp, dst, src, Len(src)),
              LAMBDA st : [sp |-> st.sp, dst |-> st.dst, panic |-> FALSE])
    ELSE Then(xorLoop(sp, dst, src, Len(dst)),
              LAMBDA st : [sp |-> drip(st.sp), dst |-> st.dst, panic |-> TRUE])

\* A mutant of xor_key_stream: the last byte written is fed back into z.
xor_key_stream_feedback(sp, dst, src) ==
    IF Len(dst) # Len(src)
    THEN [sp |-> sp, dst |-> dst, panic |-> TRUE]
    ELSE Then(xorLoop(sp, dst, src, Len(src)),
              LAMBDA st : [sp |-> IF Len(src) = 0 THEN st.sp
                                  ELSE [st.sp EXCEPT !.z = st.dst[Len(src)]],
                           dst |-> st.dst, panic |-> FALSE])

\* xor_key_stream(dst, src): the assert fails (a panic) before the loop when
\* the lengths differ.  The result is the engine and the dst buffer left.
xor_key_stream(sp, dst, src) ==
    IF Len(dst) # Len(src)
    THEN [sp |-> sp, dst |-> dst, panic |-> TRUE]
    ELSE Then(xorLoop(sp, dst, src, Len(src)),
              LAMBDA st : [sp |-> st.sp, dst |-> st.dst, panic |-> FALSE])

\* A mutant of new: the key is closed with a stop marker.
new_stop(key) == Then(absorb(initialize_state, key), absorb_stop)

\* Spritz::new(key).
new(key) == absorb(initialize_state, key)

\* A mutant of hash256: the stop marker between message and length is missing.
hash256_nostop(msg) ==
    LET s1 == absorb(initialize_state, msg)
        s3 == Then(s1, LAMBDA s : absorb(s, <<32>>))
    IN  Then(s3, LAMBDA s : squeeze(s, 32)).p

hash256(msg) ==
    LET s1 == absorb(initialize_state, msg)
        s2 == Then(s1, absorb_stop)
        s3 == Then(s2, LAMBDA s : absorb(s, <<32>>))
    IN  Then(s3, LAMBDA s : squeeze(s, 32)).p

----------------------------------------------------------------------------
(***************************************************************************)
(* Bounds and inputs.                                                      *)
(***************************************************************************)

\* Operations applied to an engine after its construction (Spec).
MaxOps == 2
\* Keystream bytes drawn from an engine through the public API (SpecApi).
MaxDraw == 8
\* Longest buffer handed to one xor_key_stream call (SpecApi).
MaxChunk == 3
\* Longest enumerated message of hash256 (SpecHash).
MaxMsgLen == 2
\* Shuffles that absorbing LongKey runs: 3 whips each, so that w wraps (Spec).
LongShuffles == 43
\* SpecRoundTrip: the bytes encrypted.
MaxText == 5

KeyByte(n) == (37 * n + 11) % 256
ABC == <<65, 66, 67>>
spam == <<115, 112, 97, 109>>
arcfour == <<97, 114, 99, 102, 111, 117, 114>>

\* The expected bytes of the test it_works: the first 8 keystream bytes of
\* new(key), and the first 8 bytes of hash256(msg).
StreamVector(kk) ==
    CASE kk = ABC     -> <<119, 154, 142, 1, 249, 233, 203, 192>>
      [] kk = spam    -> <<240, 96, 154, 29, 241, 67, 206, 191>>
      [] kk = arcfour -> <<26, 250, 139, 94, 227, 55, 219, 199>>
HashVector(m) ==
    CASE m = ABC     -> <<2, 143, 162, 180, 139, 147, 74, 24>>
      [] m = spam    -> <<172, 187, 160, 129, 63, 48, 13, 58>>
      [] m = arcfour -> <<255, 140, 242, 104, 9, 76, 135, 185>>
\* LongShuffles + 1 blocks of N/2 nibbles: absorbing it runs LongShuffles
\* shuffles, one before each block but the first, and leaves a = N/2.
LongKey == [n \in 1 .. ((LongShuffles + 1) * (N \div 4)) |-> KeyByte(n)]

EngineKeys == {<<>>, LongKey}
ApiKeys == {<<>>, ABC, spam, arcfour}
AbsorbInputs == {ABC}
ByteInputs == {165}
NibbleInputs == {0, 15}
WhipInputs == {1, 2 * N}
SqueezeInputs == {0, 2}
\* The caller's data and the caller's destination buffer before the call.
Plain == [n \in 1 .. (MaxDraw + MaxChunk + 1) |-> (29 * n + 100) % 256]
Blank(len) == [n \in 1 .. len |-> 238]
XorInputs == {[src |-> SubSeq(Plain, 1, 2), dst |-> Blank(2)],
              [src |-> SubSeq(Plain, 1, 2), dst |-> Blank(1)]}

----------------------------------------------------------------------------
VARIABLES
    sp,      \* the engine
    pre,     \* the engine as it was before the last operation
    call,    \* the last operation: its name, inputs and results
    ops,     \* Spec: the number of operations so far
    key,     \* the key the engine was constructed from
    out,     \* the bytes output() has returned since the construction
    sp2,     \* SpecApi: a second engine from the same key, driven by drip() only
    out2,    \* SpecApi: the bytes the second engine's drip() calls returned
    srcAll,  \* SpecApi: the src buffers of the xor_key_stream calls, concatenated
    dstAll,  \* SpecApi: the dst buffers they left, concatenated
    msg,     \* SpecHash: the message; SpecRoundTrip: the plaintext
    digest,  \* SpecHash: hash256(msg), once computed
    decAll,  \* SpecRoundTrip: the dst buffers the decrypting engine left
    cuts     \* SpecRoundTrip: where each side's calls have split the data

vars == <<sp, pre, call, ops, key, out, sp2, out2, srcAll, dstAll, msg, digest,
          decAll, cuts>>

\* No call has split the data yet.
NoCuts == [enc |-> {}, dec |-> {}]

Call(op, arg, dst0, dst, ret, panic) ==
    [op |-> op, arg |-> arg, dst0 |-> dst0, dst |-> dst, ret |-> ret, panic |-> panic]

\* The state after `Spritz::new(kk)`.
Constructed(kk) ==
    /\ key = kk
    /\ sp = new(kk)
    /\ pre = initialize_state
    /\ call = Call("new", kk, <<>>, <<>>, <<>>, FALSE)
    /\ ops = 0
    /\ out = <<>>
    /\ sp2 = sp
    /\ out2 = <<>>
    /\ srcAll = <<>>
    /\ dstAll = <<>>
    /\ msg = <<>>
    /\ digest = <<>>
    /\ decAll = <<>>
    /\ cuts = NoCuts

\* One operation of the engine: it leaves engine s1 and returns ret.
Ran(op, arg, s1, ret) ==
    /\ sp' = s1
    /\ pre' = sp
    /\ call' = Call(op, arg, <<>>, <<>>, ret, FALSE)
    /\ ops' = ops + 1
    /\ out' = out \o s1.outs
    /\ UNCHANGED <<key, sp2, out2, srcAll, dstAll, msg, digest, decAll, cuts>>

(***************************************************************************)
(* Spec: an engine constructed from a key, then driven by any MaxOps       *)
(* operations of `impl Spritz`, private ones included.                     *)
(***************************************************************************)
Init == \E kk \in EngineKeys : Constructed(kk)

Absorb ==
    /\ ops < MaxOps
    /\ \E I \in AbsorbInputs :
          \E s1 \in {absorb(Fresh(sp), I)} : Ran("absorb", I, s1, <<>>)

AbsorbByte ==
    /\ ops < MaxOps
    /\ \E b \in ByteInputs :
          \E s1 \in {absorb_byte(Fresh(sp), b)} : Ran("absorb_byte", <<b>>, s1, <<>>)

AbsorbNibble ==
    /\ ops < MaxOps
    /\ \E x \in NibbleInputs :
          \E s1 \in {absorb_nibble(Fresh(sp), x)} : Ran("absorb_nibble", <<x>>, s1, <<>>)

AbsorbStop ==
    /\ ops < MaxOps
    /\ \E s1 \in {absorb_stop(Fresh(sp))} : Ran("absorb_stop", <<>>, s1, <<>>)

Shuffle ==
    /\ ops < MaxOps
    /\ \E s1 \in {shuffle(Fresh(sp))} : Ran("shuffle", <<>>, s1, <<>>)

Whip ==
    /\ ops < MaxOps
    /\ \E r \in WhipInputs :
          \E s1 \in {whip(Fresh(sp), r)} : Ran("whip", <<r>>, s1, <<>>)

Crush ==
    /\ ops < MaxOps
    /\ \E s1 \in {crush(Fresh(sp))} : Ran("crush", <<>>, s1, <<>>)

Update ==
    /\ ops < MaxOps
    /\ \E s1 \in {update(Fresh(sp))} : Ran("update", <<>>, s1, <<>>)

Output ==
    /\ ops < MaxOps
    /\ \E s1 \in {output(Fresh(sp))} : Ran("output", <<>>, s1, <<s1.z>>)

Drip ==
    /\ ops < MaxOps
    /\ \E s1 \in {drip(Fresh(sp))} : Ran("drip", <<>>, s1, <<s1.z>>)

Squeeze ==
    /\ ops < MaxOps
    /\ \E r \in SqueezeInputs :
          \E res \in {squeeze(Fresh(sp), r)} : Ran("squeeze", <<r>>, res.sp, res.p)

XorKeyStream ==
    /\ ops < MaxOps
    /\ \E x \in XorInputs :
          \E res \in {xor_key_stream(Fresh(sp), x.dst, x.src)} :
              /\ sp' = res.sp
              /\ pre' = sp
              /\ call' = Call("xor_key_stream", x.src, x.dst, res.dst, <<>>, res.panic)
              /\ ops' = ops + 1
              /\ out' = out \o res.sp.outs
              /\ UNCHANGED <<key, sp2, out2, srcAll, dstAll, msg, digest, decAll, cuts>>

Next ==
    \/ Absorb \/ AbsorbByte \/ AbsorbNibble \/ AbsorbStop
    \/ Shuffle \/ Whip \/ Crush \/ Update \/ Output
    \/ Drip \/ Squeeze \/ XorKeyStream

Spec == Init /\ [][Next]_vars

(***************************************************************************)
(* SpecApi: an engine used through the public API only: new(key), then     *)
(* drip() and xor_key_stream(dst, src) calls, with equal and with unequal  *)
(* buffer lengths, until MaxDraw keystream bytes are drawn.  The caller    *)
(* sends the bytes of Plain, in order.  Beside it runs a second engine     *)
(* from the same key, from which a drip() draws every byte the first       *)
(* engine is asked for.                                                    *)
(***************************************************************************)
InitApi == \E kk \in ApiKeys : Constructed(kk)

\* n drip() calls on engine e.
DripTimes(e, n) == For(LAMBDA s, m : drip(s), e, 1, n)

ApiDrip ==
    /\ Len(out2) < MaxDraw
    /\ \E s1 \in {drip(Fresh(sp))}, s2 \in {DripTimes(Fresh(sp2), 1)} :
           /\ sp' = s1
           /\ pre' = sp
           /\ call' = Call("drip", <<>>, <<>>, <<>>, <<s1.z>>, FALSE)
           /\ out' = out \o s1.outs
           /\ sp2' = s2
           /\ out2' = out2 \o s2.outs
           /\ UNCHANGED <<ops, key, srcAll, dstAll, msg, digest, decAll, cuts>>

ApiXorKeyStream ==
    \E len \in 0 .. MaxChunk, dlen \in 0 .. (MaxChunk + 1) :
       /\ Len(out2) + len <= MaxDraw
       /\ dlen \in {len - 1, len, len + 1}
       /\ \E src \in {SubSeq(Plain, Len(srcAll) + 1, Len(srcAll) + len)} :
          \E res \in {xor_key_stream(Fresh(sp), Blank(dlen), src)},
             s2 \in {DripTimes(Fresh(sp2), IF dlen = len THEN len ELSE 0)} :
              /\ sp' = res.sp
              /\ pre' = sp
              /\ call' = Call("xor_key_stream", src, Blank(dlen), res.dst, <<>>, res.panic)
              /\ out' = out \o res.sp.outs
              /\ srcAll' = IF res.panic THEN srcAll ELSE srcAll \o src
              /\ dstAll' = IF res.panic THEN dstAll ELSE dstAll \o res.dst
              /\ sp2' = s2
              /\ out2' = out2 \o s2.outs
              /\ UNCHANGED <<ops, key, msg, digest, decAll, cuts>>

NextApi == ApiDrip \/ ApiXorKeyStream

SpecApi == InitApi /\ [][NextApi]_vars

(***************************************************************************)
(* SpecHash: hash256 applied to one message.                               *)
(***************************************************************************)
HashBytes == {0, 1, 32, 65, 128, 200, 255}

RECURSIVE Strings(_)
Strings(len) ==
    IF len = 0 THEN {<<>>}
    ELSE LET shorter == Strings(len - 1)
         IN  shorter \cup {Append(m, b) : m \in shorter, b \in HashBytes}

Messages == {ABC, spam, arcfour} \cup Strings(MaxMsgLen)

InitHash ==
    /\ msg \in Messages
    /\ digest = <<>>
    /\ call = Call("none", <<>>, <<>>, <<>>, <<>>, FALSE)
    /\ sp = initialize_state
    /\ pre = initialize_state
    /\ sp2 = initialize_state
    /\ ops = 0
    /\ key = <<>>
    /\ out = <<>>
    /\ out2 = <<>>
    /\ srcAll = <<>>
    /\ dstAll = <<>>
    /\ decAll = <<>>
    /\ cuts = NoCuts

Hash256 ==
    /\ call.op = "none"
    /\ \E d \in {hash256(msg)} :
          /\ digest' = d
          /\ call' = Call("hash256", msg, <<>>, <<>>, d, FALSE)
    /\ UNCHANGED <<sp, pre, ops, key, out, sp2, out2, srcAll, dstAll, msg,
                    decAll, cuts>>

NextHash == Hash256

SpecHash == InitHash /\ [][NextHash]_vars

----------------------------------------------------------------------------
(***************************************************************************)
(* SpecRoundTrip: an encrypting engine sp and a decrypting engine sp2,     *)
(* both from new(key).  The first turns the plaintext msg into the         *)
(* ciphertext dstAll by xor_key_stream calls, the second turns the         *)
(* ciphertext into decAll by xor_key_stream calls of its own lengths.      *)
(***************************************************************************)
\* A second plaintext: the extreme byte values.
Extremes == [n \in 1 .. (MaxText + 1) |-> IF n % 2 = 1 THEN 255 ELSE 0]
Plaintexts == {SubSeq(Plain, 1, MaxText + 1), Extremes}

InitRoundTrip ==
    \E kk \in ApiKeys, p \in Plaintexts :
        /\ key = kk
        /\ sp = new(kk)
        /\ sp2 = new(kk)
        /\ pre = initialize_state
        /\ call = Call("new", kk, <<>>, <<>>, <<>>, FALSE)
        /\ ops = 0
        /\ out = <<>>
        /\ out2 = <<>>
        /\ srcAll = <<>>
        /\ dstAll = <<>>
        /\ msg = p
        /\ digest = <<>>
        /\ decAll = <<>>
        /\ cuts = NoCuts

\* The encrypting side: xor_key_stream(dst, src) on the next len >= 1 bytes of
\* the plaintext.
Encrypt ==
    \E len \in 1 .. MaxChunk :
        /\ Len(srcAll) + len <= MaxText
        /\ \E src \in {SubSeq(msg, Len(srcAll) + 1, Len(srcAll) + len)} :
              \E res \in {xor_key_stream(Fresh(sp), Blank(len), src)} :
                  /\ sp' = res.sp
                  /\ pre' = sp
                  /\ call' = Call("xor_key_stream", src, Blank(len), res.dst,
                                  <<>>, res.panic)
                  /\ out' = out \o res.sp.outs
                  /\ srcAll' = srcAll \o src
                  /\ dstAll' = dstAll \o res.dst
                  /\ cuts' = [cuts EXCEPT !.enc = @ \cup {Len(srcAll) + len}]
                  /\ UNCHANGED <<ops, key, sp2, out2, msg, digest, decAll>>

\* The decrypting side: xor_key_stream(dst, src) on the next len >= 1 bytes of
\* the ciphertext.
Decrypt ==
    \E len \in 1 .. MaxChunk :
        /\ Len(decAll) + len <= Len(dstAll)
        /\ \E src \in {SubSeq(dstAll, Len(decAll) + 1, Len(decAll) + len)} :
              \E res \in {xor_key_stream(Fresh(sp2), Blank(len), src)} :
                  /\ sp2' = res.sp
                  /\ pre' = sp2
                  /\ call' = Call("xor_key_stream", src, Blank(len), res.dst,
                                  <<>>, res.panic)
                  /\ out2' = out2 \o res.sp.outs
                  /\ decAll' = decAll \o res.dst
                  /\ cuts' = [cuts EXCEPT !.dec = @ \cup {Len(decAll) + len}]
                  /\ UNCHANGED <<sp, ops, key, out, srcAll, dstAll, msg, digest>>

NextRoundTrip == Encrypt \/ Decrypt

SpecRoundTrip == InitRoundTrip /\ [][NextRoundTrip]_vars

----------------------------------------------------------------------------
(***************************************************************************)
(* The properties.                                                         *)
(***************************************************************************)

\* The number of calls of f that the last operation made.
NumCalls(e, f) == Cardinality({n \in 1 .. Len(e.calls) : e.calls[n].f = f})

\* The operations that extract output.
Extractors == {"drip", "squeeze", "xor_key_stream"}

\* C1: in every reachable state of an engine, after construction and any
\* sequence of operations, the table S is a bijection on 0 .. N-1: it has the
\* N cells 0 .. N-1 and every value 0 .. N-1 is in one of them, hence in
\* exactly one.
TablePermutation ==
    /\ DOMAIN sp.S = 0 .. (N - 1)
    /\ {sp.S[x] : x \in 0 .. (N - 1)} = 0 .. (N - 1)

\* C1 witness: an absorb_nibble on a saturated engine has run (a shuffle with
\* its updates and crushes, then the nibble's swap) and changed the table.
TablePermutationWitness ==
    /\ call.op = "absorb_nibble"
    /\ pre.a = N \div 2
    /\ sp.updates = 6 * N
    /\ sp.S # pre.S

\* C2: no output byte is extracted while unshuffled absorbed data is pending:
\* every output() call made by drip, squeeze or xor_key_stream sees a = 0, and
\* when a > 0 at the start of an extraction, the first thing it does is a
\* shuffle, before any update, and its three whips of 2N updates are over
\* before the first output().
NoOutputWhilePending ==
    call.op \in Extractors =>
        /\ \A n \in 1 .. Len(sp.calls) :
              sp.calls[n].f = "output" => sp.calls[n].a = 0
        /\ (pre.a > 0 /\ (sp.outs # <<>> \/ call.op = "squeeze")) =>
              /\ sp.calls # <<>>
              /\ sp.calls[1].f = "shuffle"
              /\ sp.calls[1].u = 0
              /\ \A n \in 1 .. Len(sp.calls) :
                    sp.calls[n].f = "output" => sp.calls[n].u > 6 * N

\* C2 witness: a drip() on an engine with pending absorbed data returned a byte.
NoOutputWhilePendingWitness ==
    /\ call.op = "drip"
    /\ pre.a > 0
    /\ Len(sp.outs) = 1
    /\ NumCalls(sp, "shuffle") = 1

\* C3: streaming equivalence.  When every byte was drawn by xor_key_stream
\* calls, the dst buffers they left, concatenated, are what one
\* xor_key_stream call on the concatenated source leaves on a fresh engine
\* from the same key, and are the source xor the first drip() bytes of such
\* an engine: a later call continues the keystream.
StreamingEquivalence ==
    Len(out2) = Len(srcAll) =>
        /\ Len(dstAll) = Len(srcAll)
        /\ dstAll = xor_key_stream(new(key), Blank(Len(srcAll)), srcAll).dst
        /\ \A n \in 1 .. Len(srcAll) : dstAll[n] = Xor(srcAll[n], out2[n])

\* C3 witness: at least two xor_key_stream calls with non-empty buffers, on
\* an engine with a non-empty key, drew all the bytes.
StreamingEquivalenceWitness ==
    /\ key # <<>>
    /\ call.op = "xor_key_stream"
    /\ ~call.panic
    /\ Len(call.arg) > 0
    /\ Len(srcAll) > Len(call.arg)
    /\ Len(out2) = Len(srcAll)

\* C4: xor_key_stream(dst, src) with buffers of different lengths panics
\* before any byte is processed: no drip, update, shuffle or output is
\* performed, dst is left as it was, and so is the engine.
LengthMismatchRejected ==
    (call.op = "xor_key_stream" /\ Len(call.dst0) # Len(call.arg)) =>
        /\ call.panic
        /\ call.dst = call.dst0
        /\ Core(sp) = Core(pre)
        /\ sp.updates = 0
        /\ sp.calls = <<>>
        /\ sp.outs = <<>>

\* C4 witness: a call with a non-empty dst shorter than src has panicked.
LengthMismatchRejectedWitness ==
    /\ call.op = "xor_key_stream"
    /\ call.panic
    /\ Len(call.dst0) > 0
    /\ Len(call.dst0) < Len(call.arg)

\* C5: stream-mode known answers: the first 8 drip() bytes of new("ABC"),
\* new("spam") and new("arcfour") are the bytes of the test's vectors.
StreamKnownAnswers ==
    (key \in {ABC, spam, arcfour} /\ srcAll = <<>> /\ Len(out) >= 8) =>
        SubSeq(out, 1, 8) = StreamVector(key)

\* C5 witness: the eighth drip() on new("arcfour") has returned.
StreamKnownAnswersWitness ==
    /\ key = arcfour
    /\ srcAll = <<>>
    /\ call.op = "drip"
    /\ Len(out) = 8

\* initialize, absorb(m), absorb_stop(), absorb([32]), squeeze(32).
DigestBySteps(m) ==
    LET s1 == absorb(initialize_state, m)
        s2 == Then(s1, absorb_stop)
        s3 == Then(s2, LAMBDA s : absorb(s, <<32>>))
    IN  Then(s3, LAMBDA s : squeeze(s, 32)).p

\* C6: digest-mode known answers: hash256(msg) is initialize, absorb(msg),
\* absorb_stop(), absorb([32]), squeeze(32); it returns exactly 32 bytes, and
\* the first 8 of them for "ABC", "spam" and "arcfour" are the bytes of the
\* test's vectors.
HashKnownAnswers ==
    call.op = "hash256" =>
        /\ Len(digest) = 32
        /\ digest = DigestBySteps(msg)
        /\ msg \in {ABC, spam, arcfour} => SubSeq(digest, 1, 8) = HashVector(msg)

\* C6 witness: hash256("arcfour") has returned.
HashKnownAnswersWitness ==
    /\ call.op = "hash256"
    /\ msg = arcfour
    /\ Len(digest) = 32

\* C7: the stride w is odd in every reachable state: initialize_state sets
\* it to 1, and an operation changes it only by its whip calls, each adding 2
\* modulo 256, also across the wrap past 255.
StrideOdd ==
    /\ sp.w % 2 = 1
    /\ sp.w = Wrap(pre.w + 2 * NumCalls(sp, "whip"))
    /\ call.op = "new" => pre.w = 1

\* C7 witness: a whip was entered with w = 255 and a later one with w = 1.
StrideOddWitness ==
    \E m, n \in 1 .. Len(sp.calls) :
        /\ m < n
        /\ sp.calls[m].f = "whip" /\ sp.calls[m].w = 255
        /\ sp.calls[n].f = "whip" /\ sp.calls[n].w = 1

\* C8: the absorption counter stays in 0 .. N/2 in every state between
\* operations: it is never incremented beyond N/2 and its wrapping increment
\* never wraps.
AbsorptionCounterBounded ==
    /\ sp.a >= 0
    /\ sp.a <= N \div 2

\* C8 witness: absorb_stop on a saturated engine (a = N/2) shuffled and left
\* a = 1.
AbsorptionCounterBoundedWitness ==
    /\ call.op = "absorb_stop"
    /\ pre.a = N \div 2
    /\ NumCalls(sp, "shuffle") = 1
    /\ sp.a = 1

\* C9: determinism: the engine's state and its output depend on nothing but
\* the key and the number of bytes drawn so far.  An engine driven by drip()
\* and xor_key_stream calls of any lengths, accepted or rejected, is in the
\* state, and has produced the bytes, of a second engine from the same key
\* from which drip() drew as many bytes.
Determinism ==
    /\ Core(sp) = Core(sp2)
    /\ out = out2

\* C9 witness: bytes were drawn both by drip() and by xor_key_stream.
DeterminismWitness ==
    /\ key # <<>>
    /\ call.op = "xor_key_stream"
    /\ ~call.panic
    /\ Len(call.arg) > 1
    /\ Len(srcAll) < Len(out)
    /\ Len(srcAll) > Len(call.arg)

\* C10 as stated: update() sets i := i + w, j := k + S[i], k := i + k + S[j],
\* swaps S[i] and S[j] and leaves z, a and w unchanged.
UpdateAsStated ==
    call.op = "update" =>
        LET i1 == Wrap(pre.i + pre.w)
            j1 == Wrap(pre.k + pre.S[i1])
            k1 == Wrap(i1 + pre.k + pre.S[j1])
        IN  Core(sp) = [Core(pre) EXCEPT !.i = i1, !.j = j1, !.k = k1,
                                         !.S = [pre.S EXCEPT ![i1] = pre.S[j1],
                                                             ![j1] = pre.S[i1]]]

\* C10 as amended: update() sets i := i + w, j := k + S[j + S[i]] (the old j,
\* the new i), k := i + k + S[j] (the new i and j), swaps S[i] and S[j] and
\* leaves z, a and w unchanged; all arithmetic is modulo N.
UpdateStep ==
    call.op = "update" =>
        LET i1 == Wrap(pre.i + pre.w)
            j1 == Wrap(pre.k + pre.S[Wrap(pre.j + pre.S[i1])])
            k1 == Wrap(i1 + pre.k + pre.S[j1])
        IN  Core(sp) = [Core(pre) EXCEPT !.i = i1, !.j = j1, !.k = k1,
                                         !.S = [pre.S EXCEPT ![i1] = pre.S[j1],
                                                             ![j1] = pre.S[i1]]]

\* C10 witness: an update() has run from a state in which the two readings
\* of j differ, and has moved two cells.
UpdateStepWitness ==
    /\ call.op = "update"
    /\ pre.S[Wrap(pre.j + pre.S[Wrap(pre.i + pre.w)])] # pre.S[Wrap(pre.i + pre.w)]
    /\ sp.S # pre.S

\* The calls a shuffle entered at history position n makes, by name.
ShuffleCalls == <<"whip", "crush", "whip", "crush", "whip">>

\* The number of update() calls made before each of them, in units of 2N.
ShuffleWhipsBefore == <<0, 1, 1, 2, 2>>

\* C11: every shuffle() makes exactly the calls whip(2N), crush(), whip(2N),
\* crush(), whip(2N) in this order: each whip makes exactly r updates and then
\* adds 2 to w modulo 256, so the shuffle makes 6N updates and 2 crushes, ends
\* with a = 0 and leaves w at its entry value plus 6 modulo 256.  Stated of
\* every shuffle in the history of the last operation, of the operation
\* shuffle itself, and of the operation whip(r).
ShuffleSequence ==
    /\ \A n \in 1 .. Len(sp.calls) :
          sp.calls[n].f = "shuffle" =>
              /\ n + 5 <= Len(sp.calls)
              /\ \A m \in 1 .. 5 :
                    /\ sp.calls[n + m].f = ShuffleCalls[m]
                    /\ sp.calls[n + m].u =
                          sp.calls[n].u + 2 * N * ShuffleWhipsBefore[m]
                    /\ sp.calls[n + m].w =
                          Wrap(sp.calls[n].w + 2 * ShuffleWhipsBefore[m])
                    /\ sp.calls[n + m].a = sp.calls[n].a
              /\ IF n + 6 <= Len(sp.calls)
                 THEN /\ sp.calls[n + 6].u >= sp.calls[n].u + 6 * N
                      /\ sp.calls[n + 6].w = Wrap(sp.calls[n].w + 6)
                      /\ sp.calls[n + 6].f \in {"shuffle", "output"}
                 ELSE /\ sp.updates >= sp.calls[n].u + 6 * N
                      /\ sp.w = Wrap(sp.calls[n].w + 6)
    /\ call.op = "shuffle" =>
          /\ Len(sp.calls) = 6
          /\ sp.calls[1].f = "shuffle"
          /\ sp.updates = 6 * N
          /\ NumCalls(sp, "crush") = 2
          /\ sp.a = 0
          /\ sp.w = Wrap(pre.w + 6)
          /\ [Core(sp) EXCEPT !.S = pre.S] =
                [Core(pre) EXCEPT !.i = sp.i, !.j = sp.j, !.k = sp.k,
                                  !.a = 0, !.w = Wrap(pre.w + 6)]
    /\ call.op = "whip" =>
          /\ sp.updates = call.arg[1]
          /\ sp.w = Wrap(pre.w + 2)
          /\ Len(sp.calls) = 1
          /\ sp.a = pre.a /\ sp.z = pre.z

\* C11 witness: shuffle() has run on a saturated engine (a = N/2).
ShuffleSequenceWitness ==
    /\ call.op = "shuffle"
    /\ pre.a = N \div 2
    /\ sp.a = 0
    /\ sp.updates = 6 * N
    /\ sp.S # pre.S

\* C12: crush() is one compare-and-swap pass over the pairs (v, N-1-v) for v
\* in [0, N/2): afterwards each pair of cells holds the two values it held
\* before, the smaller at v and the larger at N-1-v; i, j, k, z, a, w are
\* unchanged.
CrushPairs ==
    call.op = "crush" =>
        /\ \A v \in 0 .. ((N \div 2) - 1) :
              /\ {sp.S[v], sp.S[(N - 1) - v]} = {pre.S[v], pre.S[(N - 1) - v]}
              /\ sp.S[v] <= sp.S[(N - 1) - v]
        /\ [Core(sp) EXCEPT !.S = pre.S] = Core(pre)
        /\ sp.updates = 0

\* C12 witness: crush() has run on a table in which some pairs were in order
\* and others were not.
CrushPairsWitness ==
    /\ call.op = "crush"
    /\ \E v \in 0 .. ((N \div 2) - 1) : pre.S[v] > pre.S[(N - 1) - v]
    /\ \E v \in 0 .. ((N \div 2) - 1) : pre.S[v] < pre.S[(N - 1) - v]
    /\ sp.S # pre.S

\* The last two operations were both crush().
CrushedTwice ==
    /\ call.op = "crush"
    /\ Len(pre.calls) = 1
    /\ pre.calls[1].f = "crush"

\* C13 as stated: crush() is not idempotent: applying crush() twice in
\* succession yields a different table than applying it once.
CrushNotIdempotent ==
    CrushedTwice => sp.S # pre.S

\* C13 as amended: crush() is idempotent: a second crush() in succession
\* leaves the table the first one made, on the tables of two crush()
\* operations in a row and on the table of every reachable state.
CrushIdempotent ==
    /\ CrushedTwice => sp.S = pre.S
    /\ \E s1 \in {crush(Fresh(sp))} : crush(s1).S = s1.S

\* C13 witness: crush() ran twice in a row and the first one changed the
\* table.
CrushIdempotentWitness ==
    /\ CrushedTwice
    /\ key # <<>>
    /\ \E v \in 0 .. ((N \div 2) - 1) : pre.S[v] # v
    /\ sp.S = pre.S

\* C14: absorb_stop() with a < N/2 increments a by exactly 1 and leaves S, i,
\* j, k, z, w unchanged, without a shuffle; with a = N/2 it performs exactly
\* one shuffle, on the engine as it was, and then ends with a = 1.
AbsorbStopEffect ==
    call.op = "absorb_stop" =>
        /\ pre.a < N \div 2 =>
              /\ Core(sp) = [Core(pre) EXCEPT !.a = pre.a + 1]
              /\ sp.calls = <<>>
              /\ sp.updates = 0
        /\ pre.a = N \div 2 =>
              /\ NumCalls(sp, "shuffle") = 1
              /\ sp.calls[1].f = "shuffle"
              /\ Len(sp.calls) = 6
              /\ sp.updates = 6 * N
              /\ sp.a = 1
              /\ \E s1 \in {shuffle(Fresh(pre))} :
                    Core(sp) = [Core(s1) EXCEPT !.a = 1]

\* C14 witness: an absorb_stop() without shuffle (a from 1 to 2) has followed
\* an absorption on a saturated engine, which shuffled and left a = 1.
AbsorbStopEffectWitness ==
    /\ call.op = "absorb_stop"
    /\ pre.a = 1
    /\ Len(pre.calls) = 6
    /\ pre.calls[1].f = "shuffle"
    /\ pre.calls[1].a = N \div 2
    /\ sp.a = 2
    /\ sp.calls = <<>>

\* The operations that absorb.
Absorbers == {"new", "absorb", "absorb_byte", "absorb_nibble", "absorb_stop"}

\* The engine e after the cells c and d of its table are exchanged and a is
\* set to a1.
Exchanged(e, c, d, a1) ==
    [Core(e) EXCEPT !.S = [e.S EXCEPT ![c] = e.S[d], ![d] = e.S[c]], !.a = a1]

\* C15: absorb_nibble(x) for a nibble x: with a < N/2 no shuffle runs, exactly
\* the cells S[a] (lower half) and S[(x + N/2) mod N] (upper half, a different
\* cell) are exchanged, nothing else changes and a becomes a + 1; with
\* a = N/2 one shuffle runs first, then S[0] and S[(x + N/2) mod N] are
\* exchanged and a becomes 1.  So a shuffle inside an absorbing operation is
\* entered with exactly N/2 nibbles or stop markers counted, never more.
AbsorbNibbleEffect ==
    /\ call.op = "absorb_nibble" =>
          LET x == call.arg[1]
              t == (x + (N \div 2)) % N
          IN  /\ x \in 0 .. 15
              /\ pre.a < N \div 2 =>
                    /\ sp.calls = <<>>
                    /\ sp.updates = 0
                    /\ pre.a < N \div 2 /\ t >= N \div 2 /\ t # pre.a
                    /\ Core(sp) = Exchanged(pre, pre.a, t, pre.a + 1)
              /\ pre.a = N \div 2 =>
                    /\ NumCalls(sp, "shuffle") = 1
                    /\ sp.calls[1].f = "shuffle"
                    /\ Len(sp.calls) = 6
                    /\ \E s1 \in {shuffle(Fresh(pre))} :
                          Core(sp) = Exchanged(s1, 0, t, 1)
    /\ call.op \in Absorbers =>
          /\ sp.a <= N \div 2
          /\ \A n \in 1 .. Len(sp.calls) :
                sp.calls[n].f = "shuffle" => sp.calls[n].a = N \div 2

\* C15 witness: an absorb_nibble without shuffle (a from 1 to 2) has followed
\* an absorption on a saturated engine, which shuffled and left a = 1, and it
\* has moved a value from the upper half to cell 1.
AbsorbNibbleEffectWitness ==
    /\ call.op = "absorb_nibble"
    /\ pre.a = 1
    /\ Len(pre.calls) = 6
    /\ pre.calls[1].f = "shuffle"
    /\ pre.calls[1].a = N \div 2
    /\ sp.a = 2
    /\ sp.calls = <<>>
    /\ sp.S[1] = pre.S[call.arg[1] + (N \div 2)]
    /\ sp.S # pre.S

\* The last operation was squeeze(r) and e is the engine r successive drip()
\* calls leave from the state squeeze(r) started in.
SqueezeAsDrips(r, e) ==
    /\ Len(call.ret) = r
    /\ call.ret = e.outs
    /\ call.ret = sp.outs

\* The shuffles of the last operation: one, the first thing it did, if a > 0
\* on entry, and none if a = 0; the check inside drip() never fires.
ShuffledOnceUpFront ==
    /\ NumCalls(sp, "shuffle") = (IF pre.a > 0 THEN 1 ELSE 0)
    /\ \A n \in 1 .. Len(sp.calls) :
          sp.calls[n].f = "shuffle" => n = 1 /\ sp.calls[n].u = 0

\* C16 as stated: squeeze(r) from any reachable state returns exactly r bytes,
\* the bytes r successive drip() calls return from the same state, and leaves
\* the engine in the same final state; shuffle runs exactly once if a > 0 on
\* entry and never if a = 0.
SqueezeAsStated ==
    call.op = "squeeze" =>
        \E e \in {DripTimes(Fresh(pre), call.arg[1])} :
            /\ SqueezeAsDrips(call.arg[1], e)
            /\ Core(sp) = Core(e)
            /\ ShuffledOnceUpFront

\* C16 as amended: as stated for r >= 1, and for r = 0 when a = 0 on entry;
\* squeeze(0) with a > 0 on entry returns no byte but still shuffles once,
\* which zero drip() calls do not: it leaves the state of shuffle().
SqueezeEquivalence ==
    call.op = "squeeze" =>
        \E e \in {DripTimes(Fresh(pre), call.arg[1])} :
            /\ SqueezeAsDrips(call.arg[1], e)
            /\ ShuffledOnceUpFront
            /\ (call.arg[1] >= 1 \/ pre.a = 0) => Core(sp) = Core(e)
            /\ (call.arg[1] = 0 /\ pre.a > 0) =>
                  /\ Core(e) = Core(pre)
                  /\ \E s1 \in {shuffle(Fresh(pre))} : Core(sp) = Core(s1)

\* C16 witness: squeeze(2) has returned two bytes from an engine with pending
\* absorbed data.
SqueezeEquivalenceWitness ==
    /\ call.op = "squeeze"
    /\ call.arg[1] = 2
    /\ pre.a > 0
    /\ Len(call.ret) = 2
    /\ NumCalls(sp, "output") = 2

\* How often each index is the value of i after one of the next r update()
\* calls on engine e.
IVisits(e, r) ==
    For(LAMBDA st, n :
            Then(update(st.sp),
                 LAMBDA s1 : [sp |-> s1,
                              seen |-> [st.seen EXCEPT ![s1.i] = @ + 1]]),
        [sp |-> e, seen |-> [x \in 0 .. (N - 1) |-> 0]], 1, r).seen

\* The engine at the entry of the next whip of shuffle(), from the entry of a
\* whip.
NextWhipEntry(e) == Then(whip(e, 2 * N), crush)

\* C17: w is odd and constant during a whip, so i += w visits every table
\* position: the next N update() calls from any reachable state give N
\* distinct values of i, and in a whip(2N), as an operation and as each of the
\* three whips of a shuffle, i takes every value 0 .. N-1 exactly twice.
CursorCoversTable ==
    /\ \E seen \in {IVisits(sp, N)} : \A x \in 0 .. (N - 1) : seen[x] = 1
    /\ (call.op = "whip" /\ call.arg[1] = 2 * N) =>
          /\ \E seen \in {IVisits(Fresh(pre), 2 * N)} :
                \A x \in 0 .. (N - 1) : seen[x] = 2
          /\ sp.i = pre.i
    /\ call.op = "shuffle" =>
          \E s2 \in {NextWhipEntry(Fresh(pre))} :
              \E s3 \in {NextWhipEntry(s2)} :
                  \E seen1 \in {IVisits(Fresh(pre), 2 * N)},
                     seen2 \in {IVisits(s2, 2 * N)},
                     seen3 \in {IVisits(s3, 2 * N)} :
                      /\ \A x \in 0 .. (N - 1) :
                            seen1[x] = 2 /\ seen2[x] = 2 /\ seen3[x] = 2
                      /\ s2.w = Wrap(pre.w + 2) /\ s3.w = Wrap(pre.w + 4)
                      /\ Core(whip(s3, 2 * N)) = [Core(sp) EXCEPT !.a = pre.a]

\* C17 witness: a whip(2N) has run with a stride other than 1 and has brought
\* i back to where it was.
CursorCoversTableWitness ==
    /\ call.op = "whip"
    /\ call.arg[1] = 2 * N
    /\ pre.w > 1
    /\ sp.i = pre.i
    /\ sp.updates = 2 * N

\* The number of bytes output() had returned before the last operation.
OutBefore == Len(out) - Len(sp.outs)

\* C18: on an engine used only through new(key), drip and xor_key_stream: once
\* the first output byte has been produced a = 0 holds in every later state,
\* shuffle, whip and crush never run again and w never changes again, and each
\* later output byte costs exactly one update() and one output().
SteadyStateAfterFirstOutput ==
    /\ out # <<>> => sp.a = 0
    /\ OutBefore > 0 =>
          /\ pre.a = 0
          /\ NumCalls(sp, "shuffle") = 0
          /\ NumCalls(sp, "whip") = 0
          /\ NumCalls(sp, "crush") = 0
          /\ sp.w = pre.w
          /\ sp.updates = Len(sp.outs)
          /\ NumCalls(sp, "output") = Len(sp.outs)
          /\ Len(sp.calls) = Len(sp.outs)
          /\ \A n \in 1 .. Len(sp.calls) : sp.calls[n].u = n

\* C18 witness: on an engine with a non-empty key, whose first byte cost a
\* shuffle, a later xor_key_stream call has drawn several bytes.
SteadyStateAfterFirstOutputWitness ==
    /\ key # <<>>
    /\ OutBefore > 0
    /\ call.op = "xor_key_stream"
    /\ Len(sp.outs) > 1
    /\ sp.updates = Len(sp.outs)

\* C19: round trip: when one engine from new(key) encrypts a plaintext by
\* xor_key_stream calls and a separate engine from new(key) decrypts the
\* ciphertext by xor_key_stream calls, split at the same or at other
\* boundaries, the decrypted bytes are the plaintext bytes.
RoundTrip ==
    /\ Len(dstAll) = Len(srcAll)
    /\ srcAll = SubSeq(msg, 1, Len(srcAll))
    /\ Len(decAll) <= Len(dstAll)
    /\ decAll = SubSeq(msg, 1, Len(decAll))

\* C19 witness: the whole text has been encrypted and decrypted by calls that
\* split it at different places, and the ciphertext is not the plaintext.
RoundTripWitness ==
    /\ key # <<>>
    /\ Len(decAll) = MaxText
    /\ cuts.enc \ cuts.dec # {}
    /\ cuts.dec \ cuts.enc # {}
    /\ \A n \in 1 .. MaxText : dstAll[n] # srcAll[n]

\* C20: new(empty key) is accepted and yields exactly the state of
\* initialize_state: S the identity, i = j = k = z = a = 0, w = 1.  The first
\* drip() on it runs no shuffle: one update and one output on the identity
\* table.  For a non-empty key a > 0 after new(key), and the first drip() runs
\* a shuffle before its update.
EmptyKey ==
    /\ (key = <<>> /\ call.op = "new") =>
          /\ \A x \in 0 .. (N - 1) : sp.S[x] = x
          /\ sp.i = 0 /\ sp.j = 0 /\ sp.k = 0 /\ sp.z = 0 /\ sp.a = 0
          /\ sp.w = 1
          /\ sp.calls = <<>>
          /\ sp.updates = 0
    /\ (key # <<>> /\ call.op = "new") => sp.a > 0
    /\ (call.op = "drip" /\ OutBefore = 0) =>
          IF key = <<>>
          THEN /\ Core(pre) = Core(initialize_state)
               /\ NumCalls(sp, "shuffle") = 0
               /\ sp.updates = 1
               /\ Len(sp.calls) = 1
               /\ sp.calls[1].f = "output"
               /\ sp.calls[1].u = 1
               /\ \E s1 \in {update(initialize_state)} : Core(sp) = Core(output(s1))
          ELSE /\ pre.a > 0
               /\ NumCalls(sp, "shuffle") = 1
               /\ sp.calls[1].f = "shuffle"
               /\ sp.calls[1].u = 0
               /\ sp.updates = 6 * N + 1

\* C20 witness: the first drip() on new(empty key) has returned.
EmptyKeyWitness ==
    /\ key = <<>>
    /\ call.op = "drip"
    /\ OutBefore = 0
    /\ Len(out) = 1
    /\ sp.i = 1

====
